---- MODULE Spec2Model ----
(***************************************************************************)
(* The OpenAI completion provider of crates/completion/src/open_ai.rs:     *)
(* its configuration, the credential lifecycle (authenticate,              *)
(* reset_credentials, save_api_key), request translation and the           *)
(* streaming pipeline, as a state machine.                                 *)
(*                                                                         *)
(* Rust values are represented as follows.                                 *)
(*   Option<T>   a set with at most one element: None = {}, Some(x) = {x}  *)
(*   String      the sequence of its code points (api keys), or a TLA+     *)
(*               string where the text is only passed along (contents,     *)
(*               urls, error messages)                                     *)
(*   Vec<u8>     a sequence of numbers in 0..255                           *)
(*   Task<..>    a record with a pc field: the await point it is parked at *)
(***************************************************************************)
EXTENDS Integers, Sequences, FiniteSets, TLC

\* ------------------------------------------------------------------ bounds
\* Number of tasks (authenticate, reset_credentials, save_api_key) and
\* stream_completion calls a run may start.
MaxTasks == 2
\* Number of items the transport delivers on one response stream.
MaxFragments == 3
\* Largest settings_version the caller of update passes.
MaxVersion == 2

\* ------------------------------------------------------------ Rust values
None == {}
Some(x) == {x}
is_some(o) == o # {}
unwrap(o) == CHOOSE x \in o : TRUE

\* str::as_bytes of one char: its UTF-8 encoding.
encode_char(c) ==
    IF c < 128 THEN <<c>>
    ELSE IF c < 2048 THEN <<192 + (c \div 64), 128 + (c % 64)>>
    ELSE IF c < 65536
         THEN <<224 + (c \div 4096), 128 + ((c \div 64) % 64), 128 + (c % 64)>>
    ELSE <<240 + (c \div 262144), 128 + ((c \div 4096) % 64),
           128 + ((c \div 64) % 64), 128 + (c % 64)>>

\* String::as_bytes: the concatenation of the chars' encodings.
RECURSIVE as_bytes(_)
as_bytes(s) ==
    IF s = <<>> THEN <<>> ELSE encode_char(Head(s)) \o as_bytes(Tail(s))

is_cont(b) == b >= 128 /\ b <= 191

\* The length of the well-formed UTF-8 sequence that starts bytes b, or 0
\* when there is none (overlong forms, surrogates, values above 10FFFF,
\* stray continuation bytes and truncated sequences are all rejected).
utf8_width(b) ==
    LET n  == Len(b)
        b0 == b[1]
    IN  IF b0 < 128 THEN 1
        ELSE IF b0 >= 194 /\ b0 <= 223
             THEN IF n >= 2 /\ is_cont(b[2]) THEN 2 ELSE 0
        ELSE IF b0 >= 224 /\ b0 <= 239
             THEN IF /\ n >= 3
                     /\ is_cont(b[2])
                     /\ is_cont(b[3])
                     /\ (b0 = 224 => b[2] >= 160)
                     /\ (b0 = 237 => b[2] <= 159)
                  THEN 3 ELSE 0
        ELSE IF b0 >= 240 /\ b0 <= 244
             THEN IF /\ n >= 4
                     /\ is_cont(b[2])
                     /\ is_cont(b[3])
                     /\ is_cont(b[4])
                     /\ (b0 = 240 => b[2] >= 144)
                     /\ (b0 = 244 => b[2] <= 143)
                  THEN 4 ELSE 0
        ELSE 0

\* The code point of a well-formed sequence of w bytes at the head of b.
decode_char(b, w) ==
    IF w = 1 THEN b[1]
    ELSE IF w = 2 THEN (b[1] - 192) * 64 + (b[2] - 128)
    ELSE IF w = 3 THEN (b[1] - 224) * 4096 + (b[2] - 128) * 64 + (b[3] - 128)
    ELSE (b[1] - 240) * 262144 + (b[2] - 128) * 4096
         + (b[3] - 128) * 64 + (b[4] - 128)

\* String::from_utf8: Some(string) for well-formed bytes, None (the
\* FromUtf8Error) otherwise.
RECURSIVE from_utf8(_)
from_utf8(b) ==
    IF b = <<>> THEN Some(<<>>)
    ELSE LET w == utf8_width(b)
         IN  IF w = 0 THEN None
             ELSE LET rest == from_utf8(SubSeq(b, w + 1, Len(b)))
                  IN  IF rest = None THEN None
                      ELSE Some(<<decode_char(b, w)>> \o unwrap(rest))

\* ------------------------------------------------------------------ models
\* open_ai::Model: the built-in variants and Custom { name, max_tokens }.
OpenAiModel(variant, name, max_tokens) ==
    [variant |-> variant, name |-> name, max_tokens |-> max_tokens]
\* A variant that carries no fields (of open_ai::Model or of another
\* family's model enum).
UnitModel(variant) == OpenAiModel(variant, "", 0)
Four == UnitModel("Four")
FourOmni == UnitModel("FourOmni")
CustomModel == OpenAiModel("Custom", "my-model", 4096)

\* language_model::LanguageModel: a family tag around a family's model.
LanguageModel(family, model) == [family |-> family, model |-> model]
LanguageModel_OpenAi(model) == LanguageModel("OpenAi", model)

\* language_model::LanguageModelRequest
LanguageModelRequest(model, messages, stop, temperature) ==
    [model |-> model, messages |-> messages, stop |-> stop,
     temperature |-> temperature]
LanguageModelRequestMessage(role, content) == [role |-> role, content |-> content]

\* RequestMessage that sends a System message as a User message.
RequestMessage_system_as_user(msg) ==
    CASE msg.role = "User" -> [role |-> "User", content |-> msg.content]
      [] msg.role = "Assistant" ->
            [role |-> "Assistant", content |-> Some(msg.content),
             tool_calls |-> <<>>]
      [] msg.role = "System" -> [role |-> "User", content |-> msg.content]

\* Role -> open_ai::RequestMessage (the closure of to_open_ai_request).
RequestMessage(msg) ==
    CASE msg.role = "User" -> [role |-> "User", content |-> msg.content]
      [] msg.role = "Assistant" ->
            [role |-> "Assistant", content |-> Some(msg.content),
             tool_calls |-> <<>>]
      [] msg.role = "System" -> [role |-> "System", content |-> msg.content]

\* to_open_ai_request that always takes the provider's model, whatever the
\* family of the request's model.
to_open_ai_request_provider_model(p, request) ==
    [model |-> p.model,
     messages |-> [i \in DOMAIN request.messages |->
                      RequestMessage(request.messages[i])],
     stream |-> TRUE,
     stop |-> request.stop,
     temperature |-> request.temperature,
     tools |-> <<>>,
     tool_choice |-> None]

\* OpenAiCompletionProvider::to_open_ai_request, for a provider p.
to_open_ai_request(p, request) ==
    [model |-> IF request.model.family = "OpenAi"
               THEN request.model.model
               ELSE p.model,
     messages |-> [i \in DOMAIN request.messages |->
                      RequestMessage(request.messages[i])],
     stream |-> TRUE,
     stop |-> request.stop,
     temperature |-> request.temperature,
     tools |-> <<>>,
     tool_choice |-> None]

\* ------------------------------------------------------------ input sets
Urls == {"https://api.openai.com/v1", "http://localhost:11434/v1"}
\* $OPENAI_API_KEY: unset, or "sk".
EnvValues == {None, Some(<<115, 107>>)}
\* What the credential store may hold for a url before the program runs:
\* nothing, the secret "k\u00E9" (in UTF-8), or a secret that is not UTF-8.
StoredSecrets == {None,
                  Some([username |-> "Bearer", secret |-> <<107, 195, 169>>]),
                  Some([username |-> "Bearer", secret |-> <<255>>])}
\* What the user may have typed into the prompt's editor: nothing, or
\* "\u00E9" followed by "1".
EnteredKeys == {<<>>, <<233, 49>>}
\* The requests callers pass.
Requests ==
    {LanguageModelRequest(LanguageModel_OpenAi(FourOmni),
        <<LanguageModelRequestMessage("User", "hi")>>, <<>>, 1),
     LanguageModelRequest(LanguageModel("Anthropic", UnitModel("Claude3Haiku")),
        <<LanguageModelRequestMessage("System", "be brief"),
          LanguageModelRequestMessage("User", "hi"),
          LanguageModelRequestMessage("Assistant", "hello")>>, <<"END">>, 0)}

\* Requests of every family of LanguageModel, among them one without
\* messages and one whose model has an id of its own.
RequestsOfEveryFamily ==
    Requests \cup
    {LanguageModelRequest(LanguageModel_OpenAi(CustomModel), <<>>, <<>>, 1),
     LanguageModelRequest(LanguageModel_OpenAi(Four),
        <<LanguageModelRequestMessage("Assistant", "hello"),
          LanguageModelRequestMessage("Assistant", "")>>, <<"END", "STOP">>, 0),
     LanguageModelRequest(LanguageModel("Cloud", UnitModel("Claude3Opus")),
        <<LanguageModelRequestMessage("User", "hi"),
          LanguageModelRequestMessage("User", "hi")>>, <<>>, 1),
     LanguageModelRequest(LanguageModel("Cloud", UnitModel("Gpt4Omni")),
        <<LanguageModelRequestMessage("Assistant", "hello"),
          LanguageModelRequestMessage("System", "be brief")>>, <<>>, 0),
     LanguageModelRequest(LanguageModel("Cloud",
                                        OpenAiModel("Custom", "my-cloud-model", 0)),
        <<LanguageModelRequestMessage("User", "hi")>>, <<>>, 1)}

\* One item of the transport's response stream: Ok(ResponseStreamEvent) with
\* its choices (each a delta whose content is an Option), or Err(error).
ResponseOk(choices) == [ok |-> TRUE, choices |-> choices, err |-> ""]
ResponseErr(err) == [ok |-> FALSE, choices |-> <<>>, err |-> err]
Delta(content) == [delta |-> [content |-> content]]
TransportItems ==
    {ResponseOk(<<Delta(Some("Hello"))>>),
     ResponseOk(<<Delta(Some(" world"))>>),
     ResponseOk(<<Delta(None)>>),
     ResponseOk(<<>>),
     ResponseOk(<<Delta(Some("first")), Delta(Some("last"))>>),
     ResponseOk(<<Delta(Some("first")), Delta(None)>>),
     ResponseErr("malformed payload"),
     ResponseErr("connection reset")}

\* ------------------------------------------------------------------ state
VARIABLES
    provider,    \* the OpenAiCompletionProvider held by the global CompletionProvider
    env,         \* the value of $OPENAI_API_KEY
    store,       \* the platform credential store: url -> Option<(username, secret)>
    prompt,      \* the AuthenticationPrompt view, if one was created
    authTasks,   \* the tasks authenticate returned
    resetTasks,  \* the tasks reset_credentials returned
    saveTasks,   \* the tasks save_api_key detached
    streams,     \* the futures / streams stream_completion returned
    returned     \* the value the last read-only call returned

vars == <<provider, env, store, prompt, authTasks, resetTasks, saveTasks,
          streams, returned>>

\* OpenAiCompletionProvider::new
new(model, api_url, http_client, low_speed_timeout, version, available_models_from_settings) ==
    [api_key |-> None,
     api_url |-> api_url,
     model |-> model,
     http_client |-> http_client,
     low_speed_timeout |-> low_speed_timeout,
     settings_version |-> version,
     available_models_from_settings |-> available_models_from_settings]

Init ==
    /\ \E available \in {<<>>, <<FourOmni, CustomModel>>} :
          provider = new(Four, "https://api.openai.com/v1", "http_client", None,
                         0, available)
    /\ env \in EnvValues
    /\ store \in [Urls -> StoredSecrets]
    /\ prompt = None
    /\ authTasks = <<>>
    /\ resetTasks = <<>>
    /\ saveTasks = <<>>
    /\ streams = <<>>
    /\ returned = [op |-> "none"]

\* Tasks and calls started so far.
NumTasks == Len(authTasks) + Len(resetTasks) + Len(saveTasks) + Len(streams)

\* OpenAiCompletionProvider::is_authenticated
is_authenticated(p) == is_some(p.api_key)

\* OpenAiCompletionProvider::settings_version
settings_version(p) == p.settings_version

\* --------------------------------------------------------- reconfiguration
\* update that rebuilds the provider with new, and so forgets the key.
update_forgets_key(model, api_url, low_speed_timeout, version) ==
    /\ provider' = new(model, api_url, provider.http_client, low_speed_timeout,
                       version, provider.available_models_from_settings)
    /\ UNCHANGED <<env, store, prompt, authTasks, resetTasks, saveTasks,
                   streams, returned>>

\* update that leaves settings_version as it was.
update_keeps_version(model, api_url, low_speed_timeout, version) ==
    /\ provider' = [provider EXCEPT !.model = model,
                                    !.api_url = api_url,
                                    !.low_speed_timeout = low_speed_timeout]
    /\ UNCHANGED <<env, store, prompt, authTasks, resetTasks, saveTasks,
                   streams, returned>>

\* update that leaves api_url as it was.
update_keeps_api_url(model, api_url, low_speed_timeout, version) ==
    /\ provider' = [provider EXCEPT !.model = model,
                                    !.low_speed_timeout = low_speed_timeout,
                                    !.settings_version = version]
    /\ UNCHANGED <<env, store, prompt, authTasks, resetTasks, saveTasks,
                   streams, returned>>

\* OpenAiCompletionProvider::update
update(model, api_url, low_speed_timeout, version) ==
    /\ provider' = [provider EXCEPT !.model = model,
                                    !.api_url = api_url,
                                    !.low_speed_timeout = low_speed_timeout,
                                    !.settings_version = version]
    /\ UNCHANGED <<env, store, prompt, authTasks, resetTasks, saveTasks,
                   streams, returned>>

\* ------------------------------------------------------------ authenticate
AuthTask(pc, api_url, result, env_lookups, store_reads) ==
    [pc |-> pc, api_url |-> api_url, result |-> result,
     env_lookups |-> env_lookups, store_reads |-> store_reads]

\* authenticate without the is_authenticated check: it always spawns.
authenticate_always_spawns ==
    /\ NumTasks < MaxTasks
    /\ authTasks' = Append(authTasks,
          AuthTask("spawned", provider.api_url, "pending", 0, 0))
    /\ UNCHANGED <<provider, env, store, prompt, resetTasks, saveTasks,
                   streams, returned>>

\* OpenAiCompletionProvider::authenticate, the call: a ready task when a key
\* is held, else a spawned task that captured api_url.
authenticate ==
    /\ NumTasks < MaxTasks
    /\ authTasks' = Append(authTasks,
          IF is_authenticated(provider)
          THEN AuthTask("done", provider.api_url, "Ok", 0, 0)
          ELSE AuthTask("spawned", provider.api_url, "pending", 0, 0))
    /\ UNCHANGED <<provider, env, store, prompt, resetTasks, saveTasks,
                   streams, returned>>

\* authenticate_spawned that asks the store first and never the environment.
authenticate_spawned_store_first(i) ==
    /\ i \in DOMAIN authTasks
    /\ authTasks[i].pc = "spawned"
    /\ authTasks' = [authTasks EXCEPT
          ![i] = AuthTask("reading", @.api_url, "pending",
                          @.env_lookups, @.store_reads + 1)]
    /\ UNCHANGED <<provider, env, store, prompt, resetTasks, saveTasks,
                   streams, returned>>

\* The spawned task up to its first await: env::var, then either the
\* update_global that stores the key or the read_credentials it awaits.
authenticate_spawned(i) ==
    /\ i \in DOMAIN authTasks
    /\ authTasks[i].pc = "spawned"
    /\ IF is_some(env)
       THEN /\ provider' = [provider EXCEPT !.api_key = Some(unwrap(env))]
            /\ authTasks' = [authTasks EXCEPT
                  ![i] = AuthTask("done", @.api_url, "Ok",
                                  @.env_lookups + 1, @.store_reads)]
       ELSE /\ authTasks' = [authTasks EXCEPT
                  ![i] = AuthTask("reading", @.api_url, "pending",
                                  @.env_lookups + 1, @.store_reads + 1)]
            /\ UNCHANGED provider
    /\ UNCHANGED <<env, store, prompt, resetTasks, saveTasks, streams, returned>>

\* authenticate_resumed that keeps the secret's bytes as the key's chars
\* instead of decoding them.
authenticate_resumed_raw_bytes(i, read_ok) ==
    /\ i \in DOMAIN authTasks
    /\ authTasks[i].pc = "reading"
    /\ LET entry == store[authTasks[i].api_url]
           result == IF ~read_ok THEN "read credentials failed"
                     ELSE IF entry = None THEN "credentials not found"
                     ELSE IF from_utf8(unwrap(entry).secret) = None
                          THEN "invalid utf-8"
                     ELSE "Ok"
       IN  /\ authTasks' = [authTasks EXCEPT ![i].pc = "done",
                                             ![i].result = result]
           /\ provider' = IF result = "Ok"
                          THEN [provider EXCEPT
                                   !.api_key = Some(unwrap(entry).secret)]
                          ELSE provider
    /\ UNCHANGED <<env, store, prompt, resetTasks, saveTasks, streams, returned>>

\* authenticate_resumed that takes a missing entry for an empty secret
\* (unwrap_or_default where the code has ok_or_else).
authenticate_resumed_defaulted(i, read_ok) ==
    /\ i \in DOMAIN authTasks
    /\ authTasks[i].pc = "reading"
    /\ LET entry == store[authTasks[i].api_url]
           api_key == IF is_some(entry) THEN from_utf8(unwrap(entry).secret)
                      ELSE Some(<<>>)
           result == IF ~read_ok THEN "read credentials failed"
                     ELSE IF api_key = None THEN "invalid utf-8"
                     ELSE "Ok"
       IN  /\ authTasks' = [authTasks EXCEPT ![i].pc = "done",
                                             ![i].result = result]
           /\ provider' = IF result = "Ok"
                          THEN [provider EXCEPT !.api_key = Some(unwrap(api_key))]
                          ELSE provider
    /\ UNCHANGED <<env, store, prompt, resetTasks, saveTasks, streams, returned>>

\* The spawned task from the completion of read_credentials (read_ok: the
\* platform read did not fail) to its end.
authenticate_resumed(i, read_ok) ==
    /\ i \in DOMAIN authTasks
    /\ authTasks[i].pc = "reading"
    /\ LET entry == store[authTasks[i].api_url]
           api_key == IF is_some(entry) THEN from_utf8(unwrap(entry).secret)
                      ELSE None
           result == IF ~read_ok THEN "read credentials failed"
                     ELSE IF entry = None THEN "credentials not found"
                     ELSE IF api_key = None THEN "invalid utf-8"
                     ELSE "Ok"
       IN  /\ authTasks' = [authTasks EXCEPT ![i].pc = "done",
                                             ![i].result = result]
           /\ provider' = IF result = "Ok"
                          THEN [provider EXCEPT !.api_key = Some(unwrap(api_key))]
                          ELSE provider
    /\ UNCHANGED <<env, store, prompt, resetTasks, saveTasks, streams, returned>>

\* The caller drops the Task authenticate returned once it has finished:
\* nothing of a finished task remains.
authenticate_task_dropped(i) ==
    /\ i \in DOMAIN authTasks
    /\ authTasks[i].pc = "done"
    /\ authTasks' = [k \in 1..(Len(authTasks) - 1) |->
                        IF k < i THEN authTasks[k] ELSE authTasks[k + 1]]
    /\ UNCHANGED <<provider, env, store, prompt, resetTasks, saveTasks,
                   streams, returned>>

\* ------------------------------------------------------- reset_credentials
\* OpenAiCompletionProvider::reset_credentials, the call: delete_credentials
\* is started for the current api_url and a task is spawned to await it.
reset_credentials ==
    /\ NumTasks < MaxTasks
    /\ resetTasks' = Append(resetTasks,
          [pc |-> "deleting", api_url |-> provider.api_url,
           deleted |-> FALSE, result |-> "pending"])
    /\ UNCHANGED <<provider, env, store, prompt, authTasks, saveTasks,
                   streams, returned>>

\* The platform's delete_credentials task ends, with or without success.
delete_credentials_done(i, delete_ok) ==
    /\ i \in DOMAIN resetTasks
    /\ resetTasks[i].pc = "deleting"
    /\ store' = IF delete_ok
                THEN [store EXCEPT ![resetTasks[i].api_url] = None]
                ELSE store
    /\ resetTasks' = [resetTasks EXCEPT ![i].pc = "deleted",
                                        ![i].deleted = delete_ok]
    /\ UNCHANGED <<provider, env, prompt, authTasks, saveTasks, streams, returned>>

\* reset_credentials_resumed that returns the delete's error
\* (delete_credentials.await? where the code has .log_err()).
reset_credentials_resumed_propagates(i) ==
    /\ i \in DOMAIN resetTasks
    /\ resetTasks[i].pc = "deleted"
    /\ provider' = IF resetTasks[i].deleted
                   THEN [provider EXCEPT !.api_key = None]
                   ELSE provider
    /\ resetTasks' = [resetTasks EXCEPT
          ![i].pc = "done",
          ![i].result = IF resetTasks[i].deleted THEN "Ok" ELSE "delete failed"]
    /\ UNCHANGED <<env, store, prompt, authTasks, saveTasks, streams, returned>>

\* The spawned task after delete_credentials.await.log_err(): the key is
\* cleared whatever the delete returned.
reset_credentials_resumed(i) ==
    /\ i \in DOMAIN resetTasks
    /\ resetTasks[i].pc = "deleted"
    /\ provider' = [provider EXCEPT !.api_key = None]
    /\ resetTasks' = [resetTasks EXCEPT ![i].pc = "done", ![i].result = "Ok"]
    /\ UNCHANGED <<env, store, prompt, authTasks, saveTasks, streams, returned>>

\* ------------------------------------------------------------ save_api_key
\* OpenAiCompletionProvider::authentication_prompt with
\* AuthenticationPrompt::new: the view keeps the api_url of its creation.
authentication_prompt ==
    /\ prompt' = Some([api_url |-> provider.api_url])
    /\ UNCHANGED <<provider, env, store, authTasks, resetTasks, saveTasks,
                   streams, returned>>

\* AuthenticationPrompt::save_api_key with api_key the editor's text: nothing
\* for an empty text, else write_credentials is started and a task detached.
save_api_key(api_key) ==
    /\ is_some(prompt)
    /\ api_key # <<>> => NumTasks < MaxTasks
    /\ IF api_key = <<>>
       THEN UNCHANGED saveTasks
       ELSE saveTasks' = Append(saveTasks,
               [pc |-> "writing", api_url |-> unwrap(prompt).api_url,
                api_key |-> api_key, bytes |-> as_bytes(api_key),
                result |-> "pending"])
    /\ UNCHANGED <<provider, env, store, prompt, authTasks, resetTasks,
                   streams, returned>>

\* write_credentials_done that goes on after a failed write
\* (write_credentials.await.log_err() where the code has `?`).
write_credentials_done_ignores_error(i, write_ok) ==
    /\ i \in DOMAIN saveTasks
    /\ saveTasks[i].pc = "writing"
    /\ store' = IF write_ok
                THEN [store EXCEPT ![saveTasks[i].api_url] =
                         Some([username |-> "Bearer",
                               secret |-> saveTasks[i].bytes])]
                ELSE store
    /\ saveTasks' = [saveTasks EXCEPT ![i].pc = "written"]
    /\ UNCHANGED <<provider, env, prompt, authTasks, resetTasks, streams, returned>>

\* The platform's write_credentials task ends; a failure ends the detached
\* task with the error (write_credentials.await?).
write_credentials_done(i, write_ok) ==
    /\ i \in DOMAIN saveTasks
    /\ saveTasks[i].pc = "writing"
    /\ IF write_ok
       THEN /\ store' = [store EXCEPT ![saveTasks[i].api_url] =
                            Some([username |-> "Bearer",
                                  secret |-> saveTasks[i].bytes])]
            /\ saveTasks' = [saveTasks EXCEPT ![i].pc = "written"]
       ELSE /\ saveTasks' = [saveTasks EXCEPT ![i].pc = "done",
                                              ![i].result = "write failed"]
            /\ UNCHANGED store
    /\ UNCHANGED <<provider, env, prompt, authTasks, resetTasks, streams, returned>>

\* The detached task after a successful write: the key is stored.
save_api_key_resumed(i) ==
    /\ i \in DOMAIN saveTasks
    /\ saveTasks[i].pc = "written"
    /\ provider' = [provider EXCEPT !.api_key = Some(saveTasks[i].api_key)]
    /\ saveTasks' = [saveTasks EXCEPT ![i].pc = "done", ![i].result = "Ok"]
    /\ UNCHANGED <<env, store, prompt, authTasks, resetTasks, streams, returned>>

\* ------------------------------------------------------- stream_completion
\* OpenAiCompletionProvider::stream_completion, the call: the request is
\* translated and http_client, api_key, api_url and low_speed_timeout are
\* copied into the future that is returned.
stream_completion(request) ==
    /\ NumTasks < MaxTasks
    /\ streams' = Append(streams,
          [pc |-> "future",
           request |-> to_open_ai_request(provider, request),
           http_client |-> provider.http_client,
           api_key |-> provider.api_key,
           api_url |-> provider.api_url,
           low_speed_timeout |-> provider.low_speed_timeout,
           calls |-> <<>>,
           delivered |-> <<>>,
           closed |-> FALSE,
           out |-> <<>>,
           result |-> "pending"])
    /\ UNCHANGED <<provider, env, store, prompt, authTasks, resetTasks,
                   saveTasks, returned>>

\* stream_completion_poll with the request issued before the key is checked.
stream_completion_poll_request_first(i) ==
    /\ i \in DOMAIN streams
    /\ streams[i].pc = "future"
    /\ streams' = [streams EXCEPT ![i] =
          [@ EXCEPT !.pc = IF @ = "future" /\ streams[i].api_key = None
                           THEN "failed" ELSE "requesting",
                    !.result = IF streams[i].api_key = None
                               THEN "missing api key" ELSE @,
                    !.calls = Append(@, [http_client |-> streams[i].http_client,
                                         api_url |-> streams[i].api_url,
                                         api_key |-> streams[i].api_key,
                                         request |-> streams[i].request,
                                         low_speed_timeout |->
                                             streams[i].low_speed_timeout])]]
    /\ UNCHANGED <<provider, env, store, prompt, authTasks, resetTasks,
                   saveTasks, returned>>

\* stream_completion_poll that reads api_key, api_url and low_speed_timeout
\* from the provider when the future is polled, not from the copies the call
\* made.
stream_completion_poll_reads_provider(i) ==
    /\ i \in DOMAIN streams
    /\ streams[i].pc = "future"
    /\ streams' = [streams EXCEPT ![i] =
          IF provider.api_key = None
          THEN [@ EXCEPT !.pc = "failed", !.result = "missing api key"]
          ELSE [@ EXCEPT !.pc = "requesting",
                         !.calls = Append(@, [http_client |-> provider.http_client,
                                              api_url |-> provider.api_url,
                                              api_key |-> unwrap(provider.api_key),
                                              request |-> streams[i].request,
                                              low_speed_timeout |->
                                                  provider.low_speed_timeout])]]
    /\ UNCHANGED <<provider, env, store, prompt, authTasks, resetTasks,
                   saveTasks, returned>>

\* The future up to its first await: the api_key check, then the call of
\* open_ai::stream_completion (recorded in calls) whose answer it awaits.
stream_completion_poll(i) ==
    /\ i \in DOMAIN streams
    /\ streams[i].pc = "future"
    /\ streams' = [streams EXCEPT ![i] =
          IF @.api_key = None
          THEN [@ EXCEPT !.pc = "failed", !.result = "missing api key"]
          ELSE [@ EXCEPT !.pc = "requesting",
                         !.calls = Append(@, [http_client |-> streams[i].http_client,
                                              api_url |-> streams[i].api_url,
                                              api_key |-> unwrap(streams[i].api_key),
                                              request |-> streams[i].request,
                                              low_speed_timeout |->
                                                  streams[i].low_speed_timeout])]]
    /\ UNCHANGED <<provider, env, store, prompt, authTasks, resetTasks,
                   saveTasks, returned>>

\* request.await?: the transport answers with a response stream, or with an
\* error that ends the future.
stream_completion_response(i, response_ok) ==
    /\ i \in DOMAIN streams
    /\ streams[i].pc = "requesting"
    /\ streams' = [streams EXCEPT ![i] =
          IF response_ok
          THEN [@ EXCEPT !.pc = "streaming", !.result = "Ok"]
          ELSE [@ EXCEPT !.pc = "failed", !.result = "request failed"]]
    /\ UNCHANGED <<provider, env, store, prompt, authTasks, resetTasks,
                   saveTasks, returned>>

\* filter_map_closure with the missing content defaulted (unwrap_or_default)
\* where the code leaves the closure with `?`.
filter_map_closure_defaulted(response) ==
    IF response.ok
    THEN IF response.choices = <<>> THEN Some([ok |-> TRUE, val |-> ""])
         ELSE LET choice == response.choices[Len(response.choices)]
              IN  IF choice.delta.content = None
                  THEN Some([ok |-> TRUE, val |-> ""])
                  ELSE Some([ok |-> TRUE, val |-> unwrap(choice.delta.content)])
    ELSE Some([ok |-> FALSE, val |-> response.err])

\* filter_map_closure that takes the first choice where the code pops the
\* last.
filter_map_closure_first_choice(response) ==
    IF response.ok
    THEN IF response.choices = <<>> THEN None
         ELSE LET choice == response.choices[1]
              IN  IF choice.delta.content = None THEN None
                  ELSE Some([ok |-> TRUE, val |-> unwrap(choice.delta.content)])
    ELSE Some([ok |-> FALSE, val |-> response.err])

\* The closure given to filter_map: what one item of the response stream
\* becomes, None when the item is filtered out.
filter_map_closure(response) ==
    IF response.ok
    THEN IF response.choices = <<>> THEN None
         ELSE LET choice == response.choices[Len(response.choices)]
              IN  IF choice.delta.content = None THEN None
                  ELSE Some([ok |-> TRUE, val |-> unwrap(choice.delta.content)])
    ELSE Some([ok |-> FALSE, val |-> response.err])

\* The consumer polls the stream and the transport yields one more item.
stream_next(i, response) ==
    /\ i \in DOMAIN streams
    /\ streams[i].pc = "streaming"
    /\ Len(streams[i].delivered) < MaxFragments
    /\ streams' = [streams EXCEPT
          ![i].delivered = Append(@, response),
          ![i].out = IF filter_map_closure(response) = None THEN @
                     ELSE Append(@, unwrap(filter_map_closure(response)))]
    /\ UNCHANGED <<provider, env, store, prompt, authTasks, resetTasks,
                   saveTasks, returned>>

\* stream_end that leaves the produced stream pending when the transport's
\* stream has ended.
stream_end_stays_pending(i) ==
    /\ i \in DOMAIN streams
    /\ streams[i].pc = "streaming"
    /\ ~streams[i].closed
    /\ streams' = [streams EXCEPT ![i].closed = TRUE]
    /\ UNCHANGED <<provider, env, store, prompt, authTasks, resetTasks,
                   saveTasks, returned>>

\* The consumer polls the stream and the transport's stream has ended
\* (closed): filter_map ends with the stream it wraps.
stream_end(i) ==
    /\ i \in DOMAIN streams
    /\ streams[i].pc = "streaming"
    /\ streams' = [streams EXCEPT ![i].closed = TRUE, ![i].pc = "ended"]
    /\ UNCHANGED <<provider, env, store, prompt, authTasks, resetTasks,
                   saveTasks, returned>>

\* -------------------------------------------------------- read-only calls
\* open_ai::Model::iter(): every variant, Custom with default fields.
OpenAiModel_iter ==
    <<UnitModel("ThreePointFiveTurbo"), Four, UnitModel("FourTurbo"), FourOmni,
      OpenAiModel("Custom", "", 0)>>

\* available_models that lists the built-in models whatever the active
\* model is.
available_models_builtin_only(p) ==
    LET wrap(models) == [i \in DOMAIN models |-> LanguageModel_OpenAi(models[i])]
    IN  IF p.available_models_from_settings = <<>>
        THEN wrap(SelectSeq(OpenAiModel_iter, LAMBDA m : m.variant # "Custom"))
        ELSE wrap(p.available_models_from_settings)

\* OpenAiCompletionProvider::available_models
available_models(p) ==
    LET wrap(models) == [i \in DOMAIN models |-> LanguageModel_OpenAi(models[i])]
    IN  IF p.available_models_from_settings = <<>>
        THEN wrap(IF p.model.variant = "Custom"
                  THEN <<p.model>>
                  ELSE SelectSeq(OpenAiModel_iter,
                                 LAMBDA m : m.variant # "Custom"))
        ELSE wrap(p.available_models_from_settings)

\* LanguageModel::id: the id of the family's model (open_ai::Model::id,
\* CloudModel::id).
model_id(model) ==
    IF model.family = "OpenAi"
    THEN CASE model.model.variant = "ThreePointFiveTurbo" -> "gpt-3.5-turbo"
           [] model.model.variant = "Four" -> "gpt-4"
           [] model.model.variant = "FourTurbo" -> "gpt-4-turbo-preview"
           [] model.model.variant = "FourOmni" -> "gpt-4o"
           [] model.model.variant = "Custom" -> model.model.name
    ELSE IF model.family = "Cloud"
    THEN CASE model.model.variant = "Gpt3Point5Turbo" -> "gpt-3.5-turbo"
           [] model.model.variant = "Gpt4" -> "gpt-4"
           [] model.model.variant = "Gpt4Turbo" -> "gpt-4-turbo-preview"
           [] model.model.variant = "Gpt4Omni" -> "gpt-4o"
           [] model.model.variant = "Claude3_5Sonnet" -> "claude-3-5-sonnet"
           [] model.model.variant = "Claude3Opus" -> "claude-3-opus"
           [] model.model.variant = "Claude3Sonnet" -> "claude-3-sonnet"
           [] model.model.variant = "Claude3Haiku" -> "claude-3-haiku"
           [] model.model.variant = "Custom" -> model.model.name
    ELSE model.model.variant

\* tiktoken_rs::num_tokens_from_messages: Ok(count) for a model key the
\* library has a chat tokenizer for, else Err. The count is 3 tokens for each
\* message and 3 for the reply's primer; the tokens of the texts are left
\* out.
num_tokens_from_messages(model, messages) ==
    IF model \in {"gpt-3.5-turbo", "gpt-4", "gpt-4-turbo-preview", "gpt-4o"}
    THEN [ok |-> TRUE, count |-> 3 * Len(messages) + 3]
    ELSE [ok |-> FALSE, count |-> 0]

\* The transcript count_open_ai_tokens builds from the request's messages.
ChatCompletionRequestMessages(request) ==
    [i \in DOMAIN request.messages |->
        [role |-> CASE request.messages[i].role = "User" -> "user"
                    [] request.messages[i].role = "Assistant" -> "assistant"
                    [] request.messages[i].role = "System" -> "system",
         content |-> Some(request.messages[i].content),
         name |-> None,
         function_call |-> None]]

\* count_open_ai_tokens that looks every model up under its own id.
count_open_ai_tokens_own_id(request) ==
    [tokenizer |-> model_id(request.model),
     messages |-> ChatCompletionRequestMessages(request),
     result |-> num_tokens_from_messages(model_id(request.model),
                                         ChatCompletionRequestMessages(request))]

\* count_open_ai_tokens: the call of tiktoken_rs::num_tokens_from_messages
\* it makes (the tokenizer key and the transcript) and what that returns.
count_open_ai_tokens(request) ==
    LET tokenizer ==
            IF \/ request.model.family = "Anthropic"
               \/ /\ request.model.family = "Cloud"
                  /\ request.model.model.variant \in
                        {"Claude3_5Sonnet", "Claude3Opus", "Claude3Sonnet",
                         "Claude3Haiku"}
               \/ /\ request.model.family = "OpenAi"
                  /\ request.model.model.variant = "Custom"
            THEN "gpt-4"
            ELSE model_id(request.model)
    IN  [tokenizer |-> tokenizer,
         messages |-> ChatCompletionRequestMessages(request),
         result |-> num_tokens_from_messages(tokenizer,
                                             ChatCompletionRequestMessages(request))]

\* A caller reads available_models.
available_models_call ==
    /\ returned' = [op |-> "available_models", value |-> available_models(provider)]
    /\ UNCHANGED <<provider, env, store, prompt, authTasks, resetTasks,
                   saveTasks, streams>>

\* OpenAiCompletionProvider::count_tokens
count_tokens(request) ==
    /\ returned' = [op |-> "count_tokens", value |-> count_open_ai_tokens(request)]
    /\ UNCHANGED <<provider, env, store, prompt, authTasks, resetTasks,
                   saveTasks, streams>>

\* ----------------------------------------------------------- specification
\* What the settings hold when the caller reconfigures the provider.
Settings ==
    {<<Four, "https://api.openai.com/v1", None>>,
     <<CustomModel, "http://localhost:11434/v1", Some(30)>>}

\* The steps of the credential lifecycle.
CredentialStep ==
    \/ authenticate
    \/ \E i \in 1..MaxTasks : authenticate_spawned(i)
    \/ \E i \in 1..MaxTasks, read_ok \in BOOLEAN : authenticate_resumed(i, read_ok)
    \/ reset_credentials
    \/ \E i \in 1..MaxTasks, delete_ok \in BOOLEAN : delete_credentials_done(i, delete_ok)
    \/ \E i \in 1..MaxTasks : reset_credentials_resumed(i)
    \/ authentication_prompt
    \/ \E api_key \in EnteredKeys : save_api_key(api_key)
    \/ \E i \in 1..MaxTasks, write_ok \in BOOLEAN : write_credentials_done(i, write_ok)
    \/ \E i \in 1..MaxTasks : save_api_key_resumed(i)

\* The steps of a stream_completion call whose transport yields items.
StreamStep(items) ==
    \/ \E i \in 1..MaxTasks : stream_completion_poll(i)
    \/ \E i \in 1..MaxTasks, response_ok \in BOOLEAN :
          stream_completion_response(i, response_ok)
    \/ \E i \in 1..MaxTasks, response \in items : stream_next(i, response)
    \/ \E i \in 1..MaxTasks : stream_end(i)

\* The whole provider: every operation, concurrent calls, the smallest
\* inputs (one request, a transport that yields text deltas, settings whose
\* version stays as it is).
InitAll ==
    /\ Init
    /\ provider.available_models_from_settings = <<>>
    /\ store \in [Urls -> {None, Some([username |-> "Bearer",
                                       secret |-> <<107, 195, 169>>])}]
    /\ store["http://localhost:11434/v1"] = None

Next ==
    \/ \E st \in Settings : update(st[1], st[2], st[3], provider.settings_version)
    \/ CredentialStep
    \/ \E request \in Requests :
          request.model.family # "OpenAi" /\ stream_completion(request)
    \/ StreamStep({ResponseOk(<<Delta(Some("Hello"))>>)})
    \/ available_models_call
    \/ \E request \in Requests :
          request.model.family # "OpenAi" /\ count_tokens(request)

Spec == InitAll /\ [][Next]_vars

\* The credential lifecycle alone, over every content of the environment
\* and of the store.
InitCred ==
    /\ Init
    /\ provider.available_models_from_settings = <<>>

NextCred ==
    \/ \E st \in Settings : update(st[1], st[2], st[3], provider.settings_version)
    \/ CredentialStep

SpecCred == InitCred /\ [][NextCred]_vars

\* One stream_completion call, over every item the transport can yield; the
\* key comes from the environment.
InitStream ==
    /\ Init
    /\ provider.available_models_from_settings = <<>>
    /\ env # None
    /\ \A url \in Urls : store[url] = None

NextStream ==
    \/ \E st \in Settings : update(st[1], st[2], st[3], provider.settings_version)
    \/ authenticate
    \/ \E i \in 1..MaxTasks : authenticate_spawned(i)
    \/ \E request \in Requests : streams = <<>> /\ stream_completion(request)
    \/ StreamStep(TransportItems)

SpecStream == InitStream /\ [][NextStream]_vars

\* Reconfiguration and the read-only calls, over every settings version the
\* caller may pass; the key comes from the environment.
InitConfig ==
    /\ Init
    /\ env # None
    /\ \A url \in Urls : store[url] = None

NextConfig ==
    \/ \E st \in Settings, version \in 0..MaxVersion :
          update(st[1], st[2], st[3], version)
    \/ authenticate
    \/ \E i \in 1..MaxTasks : authenticate_spawned(i)
    \/ available_models_call
    \/ \E request \in RequestsOfEveryFamily : count_tokens(request)

SpecConfig == InitConfig /\ [][NextConfig]_vars

\* A stream_completion call whose future and stream are driven while the
\* provider is reconfigured and its key reset; the key comes from the
\* environment and the caller drops the authenticate tasks that finished.
InitSnapshot ==
    /\ Init
    /\ provider.available_models_from_settings = <<>>
    /\ env # None
    /\ \A url \in Urls : store[url] = None

NextSnapshot ==
    \/ \E st \in Settings : update(st[1], st[2], st[3], provider.settings_version)
    \/ authenticate
    \/ \E i \in 1..MaxTasks : authenticate_spawned(i)
    \/ \E i \in 1..MaxTasks : authenticate_task_dropped(i)
    \/ reset_credentials
    \/ \E i \in 1..MaxTasks, delete_ok \in BOOLEAN : delete_credentials_done(i, delete_ok)
    \/ \E i \in 1..MaxTasks : reset_credentials_resumed(i)
    \/ \E request \in Requests : stream_completion(request)
    \/ StreamStep({ResponseOk(<<Delta(Some("Hello"))>>)})

SpecSnapshot == InitSnapshot /\ [][NextSnapshot]_vars

\* stream_completion called with requests of every family, under
\* reconfiguration; no key is held.
InitRequests ==
    /\ Init
    /\ provider.available_models_from_settings = <<>>
    /\ env = None
    /\ \A url \in Urls : store[url] = None

NextRequests ==
    \/ \E st \in Settings : update(st[1], st[2], st[3], provider.settings_version)
    \/ \E request \in RequestsOfEveryFamily : stream_completion(request)
    \/ \E i \in 1..MaxTasks : stream_completion_poll(i)

SpecRequests == InitRequests /\ [][NextRequests]_vars

\* ------------------------------------------------------------------ claims
\* C1: a stream_completion call made while the provider holds no api_key
\* never calls the transport, and once its future has been polled it has
\* failed with the missing-credential error.
C1_MissingCredentialNoNetworkCall ==
    \A i \in DOMAIN streams :
        streams[i].api_key = None =>
            /\ Len(streams[i].calls) = 0
            /\ streams[i].pc \in {"future", "failed"}
            /\ streams[i].pc = "failed" => streams[i].result = "missing api key"

\* A call made without a key has been polled and has failed.
C1_Witness ==
    \E i \in DOMAIN streams :
        /\ streams[i].api_key = None
        /\ streams[i].pc = "failed"
        /\ streams[i].result = "missing api key"

\* The text delta a fragment carries: the delta content of its last choice.
CarriesContent(response) ==
    /\ response.choices # <<>>
    /\ response.choices[Len(response.choices)].delta.content # None
TextDelta(response) ==
    unwrap(response.choices[Len(response.choices)].delta.content)

\* C2: while every item the transport delivered parsed, the items produced
\* are exactly the text deltas of the delivered fragments that carry
\* content, in the order of delivery; fragments without content add nothing.
C2_DeltasInServerOrder ==
    \A i \in DOMAIN streams :
        (\A k \in DOMAIN streams[i].delivered : streams[i].delivered[k].ok) =>
            LET carrying == SelectSeq(streams[i].delivered, CarriesContent)
            IN  streams[i].out =
                    [k \in DOMAIN carrying |->
                        [ok |-> TRUE, val |-> TextDelta(carrying[k])]]

\* "Hello", a keep-alive, " world" were delivered and the two deltas produced.
C2_Witness ==
    \E i \in DOMAIN streams :
        /\ streams[i].delivered = <<ResponseOk(<<Delta(Some("Hello"))>>),
                                    ResponseOk(<<>>),
                                    ResponseOk(<<Delta(Some(" world"))>>)>>
        /\ streams[i].out = <<[ok |-> TRUE, val |-> "Hello"],
                              [ok |-> TRUE, val |-> " world"]>>

\* C3: an Err item is terminal: it is the last item of the produced
\* sequence, whatever the transport yields after it.
C3_ErrIsLastItem ==
    \A i \in DOMAIN streams :
        \A k \in DOMAIN streams[i].out :
            ~streams[i].out[k].ok => k = Len(streams[i].out)

\* A step in which a credential acquisition ends with success: a spawned
\* authenticate task, or the task save_api_key detached.
AcquisitionSucceeds ==
    \/ \E i \in DOMAIN authTasks :
          /\ authTasks[i].pc # "done"
          /\ authTasks'[i].pc = "done"
          /\ authTasks'[i].result = "Ok"
    \/ \E i \in DOMAIN saveTasks :
          /\ saveTasks[i].pc # "done"
          /\ saveTasks'[i].pc = "done"
          /\ saveTasks'[i].result = "Ok"

\* A step in which a reset_credentials task ends.
ResetEnds ==
    \E i \in DOMAIN resetTasks :
        resetTasks[i].pc # "done" /\ resetTasks'[i].pc = "done"

\* C4: the provider goes from unauthenticated to authenticated only in a
\* step that ends a credential acquisition with success, and from
\* authenticated to unauthenticated only in a step that ends
\* reset_credentials; no step of update, count_tokens, stream_completion or
\* available_models changes whether a key is held.
C4_CredentialLifecycle ==
    [][/\ (~is_authenticated(provider) /\ is_authenticated(provider'))
              => AcquisitionSucceeds
       /\ (is_authenticated(provider) /\ ~is_authenticated(provider'))
              => ResetEnds]_vars

\* The provider was authenticated by a spawned task and then reset.
C4_Witness ==
    /\ ~is_authenticated(provider)
    /\ \E i \in DOMAIN authTasks :
          /\ authTasks[i].pc = "done"
          /\ authTasks[i].result = "Ok"
          /\ authTasks[i].env_lookups = 1
    /\ \E i \in DOMAIN resetTasks : resetTasks[i].pc = "done"

\* C5: when the spawned authenticate task runs with the environment
\* variable set, it stores the variable's value as the key and ends without
\* reading the store; a task reads the store (once) only when the variable
\* is absent.
C5_EnvBeforeStore ==
    [][/\ \A i \in DOMAIN authTasks :
             (authTasks[i].pc = "spawned" /\ authTasks'[i].pc # "spawned") =>
                 IF is_some(env)
                 THEN /\ provider'.api_key = env
                      /\ authTasks'[i].pc = "done"
                      /\ authTasks'[i].result = "Ok"
                      /\ authTasks'[i].store_reads = 0
                 ELSE authTasks'[i].store_reads = 1
       /\ \A i \in DOMAIN authTasks' :
             authTasks'[i].store_reads > 0 => env = None]_vars

\* The variable is set, the store holds an entry for the task's url, and the
\* task ended with the variable's value as the key and no store read.
C5_Witness ==
    \E i \in DOMAIN authTasks :
        /\ is_some(env)
        /\ is_some(store[authTasks[i].api_url])
        /\ authTasks[i].pc = "done"
        /\ authTasks[i].env_lookups = 1
        /\ authTasks[i].store_reads = 0
        /\ provider.api_key = env

C7_ResetAlwaysClears ==
    [][\A i \in DOMAIN resetTasks :
          (resetTasks[i].pc # "done" /\ resetTasks'[i].pc = "done") =>
              /\ ~is_authenticated(provider')
              /\ resetTasks'[i].result = "Ok"]_vars

\* A key was acquired, the store's delete failed, and the reset ended with
\* Ok and no key held.
C7_Witness ==
    /\ ~is_authenticated(provider)
    /\ \E i \in DOMAIN authTasks :
          authTasks[i].pc = "done" /\ authTasks[i].result = "Ok"
    /\ \E i \in DOMAIN resetTasks :
          /\ resetTasks[i].pc = "done"
          /\ ~resetTasks[i].deleted
          /\ resetTasks[i].result = "Ok"

\* C8: the step in which a spawned authenticate task ends with Ok leaves
\* the provider holding the resolved secret: the environment variable's
\* value if it is set, else the string whose UTF-8 encoding is the secret of
\* the store's entry for the api_url the task captured at the call.
C8_HoldsResolvedSecret ==
    [][\A i \in DOMAIN authTasks :
          (/\ authTasks[i].pc # "done"
           /\ authTasks'[i].pc = "done"
           /\ authTasks'[i].result = "Ok") =>
              /\ is_authenticated(provider')
              /\ IF is_some(env)
                 THEN provider'.api_key = env
                 ELSE LET entry == store[authTasks[i].api_url]
                      IN  /\ is_some(entry)
                          /\ as_bytes(unwrap(provider'.api_key))
                                = unwrap(entry).secret]_vars

\* A task read the three bytes of "ké" from the store and the provider
\* holds the two chars.
C8_Witness ==
    /\ env = None
    /\ provider.api_key = Some(<<107, 233>>)
    /\ \E i \in DOMAIN authTasks :
          /\ authTasks[i].pc = "done"
          /\ authTasks[i].result = "Ok"
          /\ authTasks[i].store_reads = 1

\* C9: when the read of the store ends a spawned authenticate task, a
\* missing entry makes the task fail (with "credentials not found" unless
\* the read itself failed), a secret that is not UTF-8 makes it fail, and a
\* task that fails leaves every field of the provider as it was.
C9_FailureLeavesProvider ==
    [][\A i \in DOMAIN authTasks :
          (authTasks[i].pc = "reading" /\ authTasks'[i].pc = "done") =>
              LET entry == store[authTasks[i].api_url]
                  result == authTasks'[i].result
              IN  /\ entry = None =>
                        result \in {"credentials not found",
                                    "read credentials failed"}
                  /\ (is_some(entry) /\ from_utf8(unwrap(entry).secret) = None)
                        => result # "Ok"
                  /\ result # "Ok" => provider' = provider]_vars

\* The variable is absent, the store had no entry, and the task failed with
\* "credentials not found" while the provider holds no key.
C9_Witness ==
    /\ env = None
    /\ ~is_authenticated(provider)
    /\ \E i \in DOMAIN authTasks :
          /\ authTasks[i].pc = "done"
          /\ authTasks[i].result = "credentials not found"
          /\ authTasks[i].store_reads = 1

\* A step of update, with whatever the caller passes.
UpdateStep ==
    \E st \in Settings, version \in 0..MaxVersion :
        update(st[1], st[2], st[3], version)

\* C10 as stated: settings_version never decreases, and every update leaves
\* it strictly greater than it was.
C10_UpdateBumpsVersion ==
    [][/\ settings_version(provider') >= settings_version(provider)
       /\ UpdateStep => settings_version(provider') > settings_version(provider)]_vars

\* C10 as amended: update sets settings_version to the value its caller
\* passes, and no other operation changes settings_version.
C10_UpdateStoresCallersVersion ==
    [][/\ \A st \in Settings, version \in 0..MaxVersion :
             update(st[1], st[2], st[3], version) =>
                 settings_version(provider') = version
       /\ settings_version(provider') # settings_version(provider) => UpdateStep]_vars

\* update has replaced the settings and the version the constructor set.
C10_Witness ==
    /\ provider.model = CustomModel
    /\ settings_version(provider) = 1

\* C11: a stream_completion call copies the provider's api_key, api_url and
\* low_speed_timeout and resolves the model when it is made; no later step
\* (update, reset_credentials) changes these copies, the transport call of
\* the stream is made with them, and a call made while a key was held never
\* fails with the missing-credential error.
C11_CallSnapshotsConfig ==
    [][/\ Len(streams') = Len(streams) + 1 =>
             LET call == streams'[Len(streams')]
             IN  /\ call.api_key = provider.api_key
                 /\ call.api_url = provider.api_url
                 /\ call.low_speed_timeout = provider.low_speed_timeout
                 /\ call.request.model \in
                       {provider.model} \cup
                       {request.model.model : request \in
                           {r \in Requests : r.model.family = "OpenAi"}}
       /\ \A i \in DOMAIN streams :
             /\ streams'[i].api_key = streams[i].api_key
             /\ streams'[i].api_url = streams[i].api_url
             /\ streams'[i].low_speed_timeout = streams[i].low_speed_timeout
             /\ streams'[i].request = streams[i].request
             /\ Len(streams'[i].calls) > Len(streams[i].calls) =>
                   /\ is_some(streams[i].api_key)
                   /\ streams'[i].calls =
                         Append(streams[i].calls,
                                [http_client |-> streams[i].http_client,
                                 api_url |-> streams[i].api_url,
                                 api_key |-> unwrap(streams[i].api_key),
                                 request |-> streams[i].request,
                                 low_speed_timeout |-> streams[i].low_speed_timeout])
             /\ is_some(streams[i].api_key) =>
                   streams'[i].result # "missing api key"]_vars

\* A call was made with a key held and the first settings; the provider was
\* then reconfigured and its key reset, and the stream's transport call still
\* carried the key and the settings of the call.
C11_Witness ==
    /\ ~is_authenticated(provider)
    /\ provider.api_url = "http://localhost:11434/v1"
    /\ provider.model = CustomModel
    /\ \E i \in DOMAIN resetTasks : resetTasks[i].pc = "done"
    /\ \E i \in DOMAIN streams :
          /\ streams[i].pc = "streaming"
          /\ Len(streams[i].calls) = 1
          /\ streams[i].calls[1].api_key = unwrap(env)
          /\ streams[i].calls[1].api_url = "https://api.openai.com/v1"
          /\ streams[i].calls[1].low_speed_timeout = None
          /\ streams[i].calls[1].request.model = Four

\* The role and the content of a message of the payload.
PayloadRole(message) == message.role
PayloadContent(message) ==
    IF message.role = "Assistant" THEN unwrap(message.content) ELSE message.content

\* C12: the payload stream_completion builds for a request has the
\* provider's configured model when the request's model is not of the OpenAi
\* family and the request's own model when it is; its messages, stop and
\* temperature are the request's, its stream flag is true, and the
\* translation changes no field of the provider.
C12_TranslateResolvesModel ==
    [][\A request \in RequestsOfEveryFamily :
          stream_completion(request) =>
              LET payload == streams'[Len(streams')].request
              IN  /\ payload.model = IF request.model.family = "OpenAi"
                                     THEN request.model.model
                                     ELSE provider.model
                  /\ Len(payload.messages) = Len(request.messages)
                  /\ \A k \in DOMAIN request.messages :
                        /\ PayloadRole(payload.messages[k]) = request.messages[k].role
                        /\ PayloadContent(payload.messages[k])
                              = request.messages[k].content
                  /\ payload.stop = request.stop
                  /\ payload.temperature = request.temperature
                  /\ payload.stream = TRUE
                  /\ provider' = provider]_vars

\* After a reconfiguration to the custom model, a request of the Anthropic
\* family was translated with the custom model and a request of the OpenAi
\* family with its own.
C12_Witness ==
    /\ provider.model = CustomModel
    /\ \E i, j \in DOMAIN streams :
          /\ streams[i].request.model = CustomModel
          /\ streams[i].request.stop = <<"END">>
          /\ Len(streams[i].request.messages) = 3
          /\ streams[j].request.model = FourOmni
          /\ streams[j].request.temperature = 1

\* C13: the payload's messages are the request's messages one for one and
\* in the same order, each with the role and the content of the request's
\* message; an Assistant message of the payload has content Some(..) and an
\* empty list of tool calls, a User or System message has no tool calls at
\* all; the payload's tools are empty and it has no tool choice.
C13_MessagesOneForOne ==
    [][\A request \in RequestsOfEveryFamily :
          stream_completion(request) =>
              LET payload == streams'[Len(streams')].request
              IN  /\ DOMAIN payload.messages = DOMAIN request.messages
                  /\ \A k \in DOMAIN request.messages :
                        LET message == payload.messages[k]
                        IN  /\ message.role \in {"User", "Assistant", "System"}
                            /\ message.role = request.messages[k].role
                            /\ IF message.role = "Assistant"
                               THEN /\ message.content
                                          = Some(request.messages[k].content)
                                    /\ message.tool_calls = <<>>
                               ELSE /\ message.content = request.messages[k].content
                                    /\ "tool_calls" \notin DOMAIN message
                  /\ payload.tools = <<>>
                  /\ payload.tool_choice = None]_vars

\* The request with a System, a User and an Assistant message was
\* translated.
C13_Witness ==
    \E i \in DOMAIN streams :
        /\ streams[i].request.messages =
              <<[role |-> "System", content |-> "be brief"],
                [role |-> "User", content |-> "hi"],
                [role |-> "Assistant", content |-> Some("hello"),
                 tool_calls |-> <<>>]>>
        /\ streams[i].request.tools = <<>>
        /\ streams[i].request.tool_choice = None

\* C14: what available_models returns is derived from the provider's fields
\* at the call: the override when it is not empty; else the single active
\* model when that is a Custom model; else the models of the built-in
\* enumeration that are not Custom, in its order. A call after an update
\* therefore answers for the model the update set.
C14_AvailableModelsFromConfig ==
    [][available_models_call =>
          LET value == returned'.value
              override == provider.available_models_from_settings
          IN  /\ \A k \in DOMAIN value : value[k].family = "OpenAi"
              /\ IF override # <<>>
                 THEN /\ Len(value) = Len(override)
                      /\ \A k \in DOMAIN value : value[k].model = override[k]
                 ELSE IF provider.model.variant = "Custom"
                 THEN value = <<LanguageModel_OpenAi(provider.model)>>
                 ELSE /\ \A k \in DOMAIN value : value[k].model.variant # "Custom"
                      /\ [k \in DOMAIN value |-> value[k].model]
                            = SelectSeq(OpenAiModel_iter,
                                        LAMBDA model : model.variant # "Custom")]_vars

\* update made the custom model the active one and the next call of
\* available_models returned that model alone.
C14_Witness ==
    /\ provider.available_models_from_settings = <<>>
    /\ provider.model = CustomModel
    /\ returned.op = "available_models"
    /\ returned.value = <<LanguageModel_OpenAi(CustomModel)>>

\* C15: count_tokens looks the tokenizer up under "gpt-4" for a request
\* whose model is of the Anthropic family, one of the Cloud models
\* Claude3_5Sonnet, Claude3Opus, Claude3Sonnet, Claude3Haiku, or an OpenAi
\* Custom model, and the tokenizer then returns a count; for every other
\* model it looks the tokenizer up under the model's own id. The transcript
\* has one entry for each message of the request, in order, whose role is
\* "user", "assistant" or "system" as the message's role is.
C15_TokenizerByModel ==
    [][\A request \in RequestsOfEveryFamily :
          count_tokens(request) =>
              LET value == returned'.value
                  model == request.model
                  variant == model.model.variant
                  role(r) == CASE r = "User" -> "user"
                               [] r = "Assistant" -> "assistant"
                               [] r = "System" -> "system"
              IN  /\ IF \/ model.family = "Anthropic"
                        \/ model.family = "Cloud" /\ variant \in
                              {"Claude3_5Sonnet", "Claude3Opus", "Claude3Sonnet",
                               "Claude3Haiku"}
                        \/ model.family = "OpenAi" /\ variant = "Custom"
                     THEN value.tokenizer = "gpt-4" /\ value.result.ok
                     ELSE value.tokenizer = model_id(model)
                  /\ DOMAIN value.messages = DOMAIN request.messages
                  /\ \A k \in DOMAIN request.messages :
                        /\ value.messages[k].role = role(request.messages[k].role)
                        /\ value.messages[k].content
                              = Some(request.messages[k].content)]_vars

\* The tokens of a request for the Cloud model Claude3Opus were counted with
\* the tokenizer of "gpt-4".
C15_Witness ==
    /\ returned.op = "count_tokens"
    /\ returned.value.tokenizer = "gpt-4"
    /\ returned.value.result.ok
    /\ returned.value.messages =
          <<[role |-> "user", content |-> Some("hi"), name |-> None,
             function_call |-> None],
            [role |-> "user", content |-> Some("hi"), name |-> None,
             function_call |-> None]>>

\* C16: for a call that holds a key, every error of the transport is the
\* final item of the produced sequence: a failure of the initial request
\* leaves the sequence with that error as its last (and only) item, an Err
\* item the transport delivered is (from then on) the last item produced,
\* and the text deltas produced before an error stay in the sequence.
C16_ErrorsAreFinalItems ==
    \A i \in DOMAIN streams :
        is_some(streams[i].api_key) =>
            /\ streams[i].result = "request failed" =>
                  /\ streams[i].out # <<>>
                  /\ ~streams[i].out[Len(streams[i].out)].ok
            /\ \A k \in DOMAIN streams[i].delivered :
                  ~streams[i].delivered[k].ok =>
                      /\ streams[i].out # <<>>
                      /\ streams[i].out[Len(streams[i].out)]
                            = [ok |-> FALSE, val |-> streams[i].delivered[k].err]
                      /\ SelectSeq(SubSeq(streams[i].out, 1, Len(streams[i].out) - 1),
                                   LAMBDA item : item.ok)
                            = [n \in DOMAIN SelectSeq(SubSeq(streams[i].delivered,
                                                             1, k - 1),
                                                      CarriesContent) |->
                                  [ok |-> TRUE,
                                   val |-> TextDelta(
                                       SelectSeq(SubSeq(streams[i].delivered, 1, k - 1),
                                                 CarriesContent)[n])]]

\* C17: once the transport's stream has ended (closed) the produced
\* sequence has ended too and nothing is added to it afterwards, and at no
\* time does it hold more items than the transport has delivered fragments.
C17_FiniteWhenTransportEnds ==
    [][/\ \A i \in DOMAIN streams' :
             /\ streams'[i].closed => streams'[i].pc = "ended"
             /\ Len(streams'[i].out) <= Len(streams'[i].delivered)
       /\ \A i \in DOMAIN streams :
             streams[i].pc = "ended" => streams'[i] = streams[i]]_vars

\* The transport delivered "Hello", a fragment without choices and " world"
\* and ended; the produced sequence ended with two items.
C17_Witness ==
    \E i \in DOMAIN streams :
        /\ streams[i].closed
        /\ streams[i].pc = "ended"
        /\ Len(streams[i].delivered) = 3
        /\ Len(streams[i].out) = 2

\* C18: the step that delivers a parsed fragment adds at most one item to
\* the produced sequence: the delta content of the fragment's last choice
\* when that choice has content, and nothing when the fragment has no
\* choices or its last choice has no content, whatever its earlier choices
\* carry.
C18_LastChoiceOnly ==
    [][\A i \in DOMAIN streams :
          (/\ Len(streams'[i].delivered) = Len(streams[i].delivered) + 1
           /\ streams'[i].delivered[Len(streams'[i].delivered)].ok) =>
              LET choices == streams'[i].delivered[Len(streams'[i].delivered)].choices
                  added == SubSeq(streams'[i].out, Len(streams[i].out) + 1,
                                  Len(streams'[i].out))
              IN  /\ SubSeq(streams'[i].out, 1, Len(streams[i].out)) = streams[i].out
                  /\ Len(added) <= 1
                  /\ IF choices # <<>> /\ is_some(choices[Len(choices)].delta.content)
                     THEN added = <<[ok |-> TRUE,
                                     val |-> unwrap(choices[Len(choices)].delta.content)]>>
                     ELSE added = <<>>]_vars

\* A fragment with the choices "first", "last" gave the item "last" and a
\* fragment whose last choice has no content gave nothing, although its
\* first choice carries "first".
C18_Witness ==
    \E i \in DOMAIN streams :
        /\ streams[i].delivered =
              <<ResponseOk(<<Delta(Some("first")), Delta(Some("last"))>>),
                ResponseOk(<<Delta(Some("first")), Delta(None)>>)>>
        /\ streams[i].out = <<[ok |-> TRUE, val |-> "last"]>>

\* C19: a step of update sets model, api_url, low_speed_timeout and
\* settings_version to its arguments and leaves api_key,
\* available_models_from_settings and http_client (and everything outside
\* the provider) as they were: a provider that held a key holds the same key
\* after update, also when api_url changed.
C19_UpdateFrame ==
    [][\A st \in Settings, version \in 0..MaxVersion :
          update(st[1], st[2], st[3], version) =>
              /\ provider'.model = st[1]
              /\ provider'.api_url = st[2]
              /\ provider'.low_speed_timeout = st[3]
              /\ provider'.settings_version = version
              /\ provider'.api_key = provider.api_key
              /\ provider'.available_models_from_settings
                    = provider.available_models_from_settings
              /\ provider'.http_client = provider.http_client
              /\ is_authenticated(provider) => is_authenticated(provider')
              /\ DOMAIN provider' = DOMAIN provider
              /\ UNCHANGED <<env, store, prompt, authTasks, resetTasks, saveTasks,
                             streams, returned>>]_vars

\* The provider took its key while its api_url was the first one, and an
\* update then changed model, api_url, low_speed_timeout and
\* settings_version: the key is still held.
C19_Witness ==
    /\ provider.api_key = env
    /\ is_authenticated(provider)
    /\ provider.api_url = "http://localhost:11434/v1"
    /\ provider.model = CustomModel
    /\ provider.low_speed_timeout = Some(30)
    /\ settings_version(provider) = 2
    /\ provider.http_client = "http_client"
    /\ \E i \in DOMAIN authTasks :
          /\ authTasks[i].pc = "done"
          /\ authTasks[i].api_url = "https://api.openai.com/v1"
          /\ authTasks[i].env_lookups = 1

\* C20: save_api_key with an empty text starts no task and changes nothing;
\* the end of the store's write changes no field of the provider: a write
\* that succeeded has stored the entered key's bytes under the prompt's
\* api_url, a write that failed ends the task with the store as it was; and
\* the provider's api_key is set by a save task only after its write
\* succeeded, to exactly the entered key.
C20_KeySetAfterWrite ==
    [][/\ save_api_key(<<>>) => UNCHANGED vars
       /\ \A i \in DOMAIN saveTasks' : saveTasks'[i].api_key # <<>>
       /\ \A i \in DOMAIN saveTasks :
             saveTasks'[i] # saveTasks[i] =>
                 IF saveTasks[i].pc = "writing"
                 THEN /\ provider' = provider
                      /\ IF saveTasks'[i].pc = "written"
                         THEN store'[saveTasks[i].api_url] =
                                 Some([username |-> "Bearer",
                                       secret |-> as_bytes(saveTasks[i].api_key)])
                         ELSE /\ saveTasks'[i].pc = "done"
                              /\ saveTasks'[i].result = "write failed"
                              /\ store' = store
                 ELSE /\ saveTasks[i].pc = "written"
                      /\ saveTasks'[i].pc = "done"
                      /\ saveTasks'[i].result = "Ok"
                      /\ provider'.api_key = Some(saveTasks[i].api_key)
                      /\ is_authenticated(provider')
                      /\ store' = store]_vars

\* A first write failed and left the provider without a key; a second write
\* succeeded and the provider holds the entered key, whose bytes the store
\* holds.
C20_Witness ==
    /\ provider.api_key = Some(<<233, 49>>)
    /\ \E i, j \in DOMAIN saveTasks :
          /\ i < j
          /\ saveTasks[i].pc = "done"
          /\ saveTasks[i].result = "write failed"
          /\ saveTasks[j].pc = "done"
          /\ saveTasks[j].result = "Ok"
          /\ store[saveTasks[j].api_url] =
                Some([username |-> "Bearer", secret |-> <<195, 169, 49>>])

====
